---- MODULE Spec2Model ----
(***************************************************************************)
(* Model of pkg/component/etcd/statefulset/statefulset.go: the StatefulSet *)
(* deployer of etcd-druid (Deploy, Destroy, Wait, WaitCleanup) running     *)
(* against the platform's API server.                                      *)
(*                                                                         *)
(* One caller invokes the operations one at a time; every platform call    *)
(* (fetch, create, patch, delete, list) is one step, and the platform may  *)
(* change the object between two steps.  Time is counted in time-units;    *)
(* the platform calls are instantaneous relative to the polling interval.  *)
(* Names are sequences of characters so that strings.HasPrefix is computed *)
(* and not assumed.                                                        *)
(*                                                                         *)
(* The variables fetched, fetchLog, lastFetch, everFound, issued, answers,  *)
(* gets, listed, enrichErr and prev record what the platform answered and  *)
(* what the component asked of it; the component never reads them.         *)
(***************************************************************************)
EXTENDS Integers, Sequences, FiniteSets, TLC

\* ---------------------------------------------------------------- bounds
\* highest generation the platform hands out
MaxGen == 2
\* most volume claims the namespace listing returns
MaxPVCs == 2
\* most warning events recorded for one volume claim
MaxEvents == 3
\* length of the recorded prefix of a waiter's fetch sequence
MaxLog == 2

\* ------------------------------------------------------- program constants
defaultInterval == 5
defaultTimeout == 90
\* the eventsLimit Wait passes to kutil.FetchEventMessages
EventsLimit == 2

\* ------------------------------------------------------------ value sets
ReplicaCounts == {0, 1, 3}
DesiredReplicas == {1, 3}
ServiceNames == {"etcd-client", "etcd-peer"}
\* errors of the platform client other than not-found
FetchErrors == {"Forbidden", "ServerTimeout"}

\* values.Name and values.VolumeClaimTemplateName of the component
ObjectName == <<"e">>
TemplateName == <<"d">>

\* ---------------------------------------------------------------- errors
NilErr == [type |-> "nil", code |-> "", last |-> ""]
APIError(code) == [type |-> "api", code |-> code, last |-> ""]
NotReadyErr == [type |-> "check", code |-> "NotReady", last |-> ""]
\* retry.NewRetryError(ctx.Err(), agg.Error()): the context's error and the
\* last minor error
RetryError(ctxErr, last) ==
    [type |-> "retry", code |-> ctxErr,
     last |-> IF last.type = "nil" THEN "" ELSE last.code]

IsNotFound(err) == err.type = "api" /\ err.code = "NotFound"

\* not-found handed on like any other error
IgnoreNotFound_Keeps(err) == err

\* client.IgnoreNotFound
IgnoreNotFound(err) == IF IsNotFound(err) THEN NilErr ELSE err

\* what an operation returns: the error, and for an error with text
\* appended the separator and the appended messages
Plain(err) == [err |-> err, sep |-> "", messages |-> <<>>]
NoResult == Plain([type |-> "none", code |-> "", last |-> ""])

VARIABLES
    obj,        \* the StatefulSet as the platform holds it
    values,     \* c.values of the component of the running call
    op,         \* the operation the caller runs
    pc,         \* position inside the operation
    sts,        \* the local working copy
    issued,     \* platform writes issued by the running call, in order
    answers,    \* what the platform answered to these writes, in order
    gets,       \* fetches Deploy itself made in the running call
    fetched,    \* what the platform answered to Deploy's fetch
    result,     \* what the finished operation returned
    pollErr,    \* error the polling loop of Wait returned
    elapsed,    \* time-units since the running waiter was called
    ticks,      \* ticks of the running waiter so far
    fetchLog,   \* what the platform answered in the first MaxLog ticks
    lastFetch,  \* what the platform answered in the latest tick
    everFound,  \* TRUE once a tick of the running Wait got the object
    lastErr,    \* last error handed to the retry aggregator
    listed,     \* volume claims the enrichment listing returned
    enrichErr,  \* 0: enrichment went through, -1: the listing failed,
                \* k: the k-th fetch of events failed
    prev,       \* how the call before ended, when a Destroy follows a Destroy
    cancelled,  \* TRUE once the caller has cancelled the context of the call
    other,      \* a second Deploy of the same identity running concurrently
    snap,       \* the snapshot syncStatefulset composes from, in full
    target,     \* the object syncStatefulset was handed, in full
    submitted,  \* the working copy syncStatefulset handed to the platform
    stored      \* the object the platform holds after that write

vars == <<obj, values, op, pc, sts, issued, answers, gets, fetched, result,
          pollErr, elapsed, ticks, fetchLog, lastFetch, everFound, lastErr,
          listed, enrichErr, prev, cancelled, other, snap, target, submitted,
          stored>>

\* variables of the polling loops and of the enrichment
pollVars == <<elapsed, ticks, fetchLog, lastFetch, everFound, lastErr>>
enrichVars == <<pollErr, listed, enrichErr>>
deployVars == <<issued, answers, gets, fetched>>

\* variables of the second Deploy and of the composition in full
raceVars == <<other>>
composeVars == <<snap, target, submitted, stored>>
\* what no step of a running operation changes
auxVars == <<prev, cancelled, raceVars, composeVars>>

\* ------------------------------------------------------- platform object
Absent == [exists |-> FALSE, generation |-> 0, serviceName |-> "",
           templates |-> <<>>, readyReplicas |-> 0, observed |-> FALSE]

LiveObjects ==
    [exists : {TRUE}, generation : 1..MaxGen, serviceName : ServiceNames,
     templates : {<<TemplateName>>}, readyReplicas : ReplicaCounts,
     observed : BOOLEAN]

Snapshots ==
    [Name : {ObjectName}, VolumeClaimTemplateName : {TemplateName},
     Replicas : DesiredReplicas, StatusReplicas : ReplicaCounts,
     ServiceName : ServiceNames]

\* Destroy and the waiters read only Name and Replicas of the snapshot
WaiterSnapshots ==
    {val \in Snapshots : val.StatusReplicas = val.Replicas /\ val.ServiceName = "etcd-peer"}

\* a placeholder that already carries a generation
emptyStatefulset_WithGeneration(val) ==
    [name |-> val.Name, generation |-> 1, serviceName |-> "", templates |-> <<>>]

\* c.emptyStatefulset(): identity only, no generation, no spec
emptyStatefulset(val) ==
    [name |-> val.Name, generation |-> 0, serviceName |-> "", templates |-> <<>>]

\* what a successful client.Get leaves in the caller's struct, as far as
\* Deploy reads it later
Decoded(o, val) ==
    [name |-> val.Name, generation |-> o.generation, serviceName |-> o.serviceName,
     templates |-> o.templates]

\* the same for Wait, which reads the status in the tick that fetched it and
\* afterwards only the name and the volume claim templates
DecodedForWait(o, val) ==
    [name |-> val.Name, generation |-> 0, serviceName |-> "",
     templates |-> o.templates]

\* outcomes of client.Get on the platform state o: the object, not-found,
\* or any other error
GetOutcomes(o) ==
    (IF o.exists THEN {[err |-> NilErr, found |-> TRUE]}
                 ELSE {[err |-> APIError("NotFound"), found |-> FALSE]})
    \cup {[err |-> APIError(e), found |-> FALSE] : e \in FetchErrors}

\* the error of a platform call made with a cancelled context
CtxError == [type |-> "ctx", code |-> "Canceled", last |-> ""]

\* outcomes of client.Get in a tick of a waiter: a fetch made after the
\* caller has cancelled the context fails with the error of the context
TickOutcomes(o) ==
    IF cancelled THEN {[err |-> CtxError, found |-> FALSE]} ELSE GetOutcomes(o)

\* outcomes of client.Delete: the object goes at once, or stays until the
\* platform has finished the deletion
DeleteOutcomes(o) ==
    (IF o.exists
     THEN {[err |-> NilErr, next |-> Absent], [err |-> NilErr, next |-> o]}
     ELSE {[err |-> APIError("NotFound"), next |-> o]})
    \cup {[err |-> APIError(e), next |-> o] : e \in FetchErrors}

CreateOutcomes(o, want) ==
    (IF o.exists
     THEN {[err |-> APIError("AlreadyExists"), next |-> o]}
     ELSE {[err |-> NilErr,
            next |-> [exists |-> TRUE, generation |-> 1,
                      serviceName |-> want.serviceName,
                      templates |-> want.templates, readyReplicas |-> 0,
                      observed |-> FALSE]]})
    \cup {[err |-> APIError(e), next |-> o] : e \in FetchErrors}

\* a patch leaves the status alone; the platform bumps the generation when
\* the patch changes the spec
PatchOutcomes(o, want) ==
    (IF o.exists
     THEN {[err |-> NilErr,
            next |-> [o EXCEPT !.serviceName = want.serviceName,
                               !.templates = want.templates,
                               !.generation = g,
                               !.observed = IF g = o.generation THEN o.observed
                                                               ELSE FALSE]] :
              g \in {o.generation, IF o.generation < MaxGen THEN o.generation + 1
                                                            ELSE o.generation}}
     ELSE {[err |-> APIError("NotFound"), next |-> o]})
    \cup {[err |-> APIError(e), next |-> o] : e \in FetchErrors}

\* utils.CheckStatefulSet: the ready replicas equal the desired count and
\* the platform has observed the current generation
CheckStatefulSet(replicas, o) ==
    IF o.readyReplicas = replicas /\ o.observed THEN NilErr ELSE NotReadyErr

\* ------------------------------------------------------------ observation
\* what the platform answered to Deploy's fetch
DeployAnswer(out, o) ==
    [kind |-> IF out.found THEN "found" ELSE
              IF IsNotFound(out.err) THEN "notfound" ELSE "error",
     code |-> out.err.code,
     generation |-> IF out.found THEN o.generation ELSE 0,
     serviceName |-> IF out.found THEN o.serviceName ELSE ""]

NoAnswer == [kind |-> "none", code |-> "", generation |-> 0, serviceName |-> ""]

\* what the platform answered in a tick of a waiter
TickAnswer(out, isReady) ==
    [kind |-> IF out.found THEN (IF isReady THEN "ready" ELSE "present") ELSE
              IF IsNotFound(out.err) THEN "notfound" ELSE "error",
     code |-> out.err.code]

NoTick == [kind |-> "none", code |-> ""]

Log(entry) == IF Len(fetchLog) < MaxLog THEN Append(fetchLog, entry) ELSE fetchLog

\* the call before was not a Destroy
NoCall == [result |-> NoResult, answers |-> <<>>]

\* no second Deploy runs
OtherIdle ==
    [pc |-> "idle", sts |-> emptyStatefulset([Name |-> ObjectName]),
     fetched |-> NoAnswer, issued |-> <<>>, answers |-> <<>>, gets |-> 0,
     result |-> NoResult, ticks |-> 0, elapsed |-> 0, lastFetch |-> NoTick]

\* a variable of the composition in full while the model does not follow it
Unused == [unused |-> TRUE]

Init ==
    /\ obj \in {Absent} \cup LiveObjects
    /\ values \in Snapshots
    /\ op = "none"
    /\ pc = "idle"
    /\ sts = emptyStatefulset(values)
    /\ issued = <<>>
    /\ gets = 0
    /\ fetched = NoAnswer
    /\ result = NoResult
    /\ pollErr = NilErr
    /\ elapsed = 0
    /\ ticks = 0
    /\ fetchLog = <<>>
    /\ lastFetch = NoTick
    /\ everFound = FALSE
    /\ lastErr = NilErr
    /\ listed = <<>>
    /\ enrichErr = 0
    /\ answers = <<>>
    /\ prev = NoCall
    /\ cancelled = FALSE
    /\ other = OtherIdle
    /\ snap = Unused
    /\ target = Unused
    /\ submitted = Unused
    /\ stored = Unused

\* no operation is running
Idle == pc \in {"idle", "done"}

\* the caller constructs a component for a snapshot and calls one operation
Call(o, val, first) ==
    /\ op' = o
    /\ pc' = first
    /\ values' = val
    /\ sts' = emptyStatefulset(val)
    /\ issued' = <<>>
    /\ gets' = 0
    /\ fetched' = NoAnswer
    /\ result' = NoResult
    /\ pollErr' = NilErr
    /\ elapsed' = 0
    /\ ticks' = 0
    /\ fetchLog' = <<>>
    /\ lastFetch' = NoTick
    /\ everFound' = FALSE
    /\ lastErr' = NilErr
    /\ listed' = <<>>
    /\ enrichErr' = 0
    /\ answers' = <<>>
    /\ prev' = IF o = "Destroy" /\ op = "Destroy" /\ pc = "done"
               THEN [result |-> result, answers |-> answers]
               ELSE NoCall
    /\ cancelled' = FALSE
    /\ UNCHANGED <<obj, raceVars, composeVars>>

Finish(res) ==
    /\ pc' = "done"
    /\ result' = res

\* ----------------------------------------------------------------- Deploy
\* the check without the case of a last-observed count that was never kept
clusterScaledUpToMultiNode_OnlyOne(val) ==
    val.Replicas > 1 /\ val.StatusReplicas = 1

clusterScaledUpToMultiNode(val) ==
    val.Replicas > 1 /\ (val.StatusReplicas = 0 \/ val.StatusReplicas = 1)

\* the test of line 69 inverted
DeployAborts_OnNotFound(err) == err.type # "nil" /\ IsNotFound(err)

\* Deploy, lines 68-71: the fetch errors that end the call
DeployAborts(err) == err.type # "nil" /\ ~IsNotFound(err)

\* Deploy, lines 75-78: the object is destroyed before it is synchronized
NeedsRecreate(s, val) ==
    /\ s.generation > 1
    /\ s.serviceName # val.ServiceName
    /\ clusterScaledUpToMultiNode(val)

\* the test of line 264 taken over from line 75
ShouldPatch_AboveOne(stsOriginal) == stsOriginal.generation > 1

\* syncStatefulset, line 264: patch the object, or else create it
ShouldPatch(stsOriginal) == stsOriginal.generation > 0

\* the fields of the working copy syncStatefulset composes from the snapshot
Composed(val) ==
    [serviceName |-> val.ServiceName,
     templates |-> <<val.VolumeClaimTemplateName>>]

CallDeploy ==
    /\ Idle
    /\ \E val \in Snapshots : Call("Deploy", val, "get")

\* Deploy, lines 67-85: the fetch and the choice of the path
DeployGet ==
    /\ op = "Deploy" /\ pc = "get"
    /\ gets' = gets + 1
    /\ \E out \in GetOutcomes(obj) :
          /\ fetched' = DeployAnswer(out, obj)
          /\ IF DeployAborts(out.err)
             THEN /\ Finish(Plain(out.err))
                  /\ UNCHANGED sts
             ELSE LET s == IF out.err.type = "nil" THEN Decoded(obj, values)
                                                   ELSE emptyStatefulset(values)
                  IN /\ sts' = s
                     /\ pc' = IF NeedsRecreate(s, values) THEN "destroy" ELSE "sync"
                     /\ UNCHANGED result
    /\ UNCHANGED <<obj, values, op, issued, answers>>
    /\ UNCHANGED <<pollVars, enrichVars, auxVars>>

\* start of retry.UntilTimeout: the deadline counts from here
StartPolling ==
    /\ elapsed' = 0
    /\ ticks' = 0
    /\ fetchLog' = <<>>
    /\ lastFetch' = NoTick
    /\ lastErr' = NilErr
    /\ UNCHANGED everFound

CallDestroy ==
    /\ Idle
    /\ \E val \in WaiterSnapshots : Call("Destroy", val, "destroy")

\* Destroy, lines 90-97 with deleteStatefulset, called by the caller or
\* through OpDestroyAndWait from Deploy (lines 79-82), which goes on to
\* WaitCleanup
DestroyStep ==
    /\ op \in {"Deploy", "Destroy"} /\ pc = "destroy"
    /\ issued' = Append(issued, "delete")
    /\ \E out \in DeleteOutcomes(obj) :
          LET err == IgnoreNotFound(out.err)
          IN /\ obj' = out.next
             /\ answers' = Append(answers, out.err.code)
             /\ IF err.type # "nil"
                THEN Finish(Plain(err)) /\ UNCHANGED pollVars
                ELSE IF op = "Destroy"
                THEN Finish(Plain(NilErr)) /\ UNCHANGED pollVars
                ELSE /\ pc' = "cleanup.tick"
                     /\ StartPolling
                     /\ UNCHANGED result
    /\ UNCHANGED <<values, op, sts, gets, fetched>>
    /\ UNCHANGED <<enrichVars, auxVars>>

\* the error of the write dropped
SyncReturn_Swallowed(err) == Plain(NilErr)

\* a create that finds the object taken for done
SyncReturn_AlreadyExistsIsDone(err) ==
    IF err.code = "AlreadyExists" THEN Plain(NilErr) ELSE Plain(err)

\* syncStatefulset, lines 264-268: the error of the write is what it returns
SyncReturn(err) == Plain(err)

\* syncStatefulset, lines 160-269: compose, then patch or create
SyncStatefulset ==
    /\ op = "Deploy" /\ pc = "sync"
    /\ LET stsOriginal == sts
           want == Composed(values)
       IN IF ShouldPatch(stsOriginal)
          THEN /\ issued' = Append(issued, "patch")
               /\ \E out \in PatchOutcomes(obj, want) :
                     /\ obj' = out.next
                     /\ answers' = Append(answers, out.err.code)
                     /\ Finish(SyncReturn(out.err))
          ELSE /\ issued' = Append(issued, "create")
               /\ \E out \in CreateOutcomes(obj, want) :
                     /\ obj' = out.next
                     /\ answers' = Append(answers, out.err.code)
                     /\ Finish(SyncReturn(out.err))
    /\ UNCHANGED <<values, op, sts, gets, fetched>>
    /\ UNCHANGED <<pollVars, enrichVars, auxVars>>

\* ------------------------------------------------------------ the waiters
\* the interval and the timeout Wait hands to retry.UntilTimeout, line 116
WaitPolling == [interval |-> defaultInterval, timeout |-> defaultTimeout]

\* the two arguments in the wrong order
CleanupPolling_Swapped == [interval |-> defaultTimeout, timeout |-> defaultInterval]

\* the interval and the timeout WaitCleanup hands to it, line 145
CleanupPolling == [interval |-> defaultInterval, timeout |-> defaultTimeout]

\* the retry loop between two ticks: the interval timer runs against the
\* deadline of the context, and the deadline wins a tie; a context the
\* caller has cancelled ends the sleep with the error of the context
DeadlineHit(t, polling) == t + polling.interval >= polling.timeout

Wake(t, polling) ==
    IF DeadlineHit(t, polling) THEN polling.timeout ELSE t + polling.interval

CallWaitCleanup ==
    /\ Idle
    /\ \E val \in WaiterSnapshots : Call("WaitCleanup", val, "cleanup.tick")

\* how WaitCleanup ends: to its caller, or back into Deploy (lines 80-83)
CleanupReturn(err) ==
    IF op = "WaitCleanup" \/ err.type # "nil"
    THEN /\ Finish(Plain(err))
         /\ UNCHANGED sts
    ELSE /\ pc' = "sync"
         /\ sts' = emptyStatefulset(values)
         /\ UNCHANGED result

\* the two first cases of the switch exchanged
CleanupVerdict_PresentIsDone(err) ==
    IF IsNotFound(err) THEN "retry"
    ELSE IF err.type = "nil" THEN "ok"
    ELSE "severe"

\* the default case ending the wait as done
CleanupVerdict_ErrorIsDone(err) ==
    IF IsNotFound(err) THEN "ok"
    ELSE IF err.type = "nil" THEN "retry"
    ELSE "ok"

\* the default case going on polling
CleanupVerdict_ErrorRetries(err) ==
    IF IsNotFound(err) THEN "ok" ELSE "retry"

\* the function WaitCleanup polls, lines 145-157
CleanupVerdict(err) ==
    IF IsNotFound(err) THEN "ok"
    ELSE IF err.type = "nil" THEN "retry"
    ELSE "severe"

WaitCleanupTick ==
    /\ op \in {"Deploy", "WaitCleanup"} /\ pc = "cleanup.tick"
    /\ ticks' = ticks + 1
    /\ \E out \in TickOutcomes(obj) :
          LET v == CleanupVerdict(out.err)
              answer == TickAnswer(out, FALSE)
          IN /\ lastFetch' = answer
             /\ fetchLog' = Log(answer.kind)
             /\ CASE v = "ok" -> CleanupReturn(NilErr) /\ UNCHANGED lastErr
                  [] v = "retry" -> /\ pc' = "cleanup.sleep"
                                    /\ UNCHANGED <<result, sts, lastErr>>
                  [] v = "severe" -> /\ CleanupReturn(out.err)
                                     /\ lastErr' = out.err
    /\ UNCHANGED <<obj, values, op, elapsed, everFound>>
    /\ UNCHANGED <<deployVars, enrichVars, auxVars>>

WaitCleanupSleep ==
    /\ op \in {"Deploy", "WaitCleanup"} /\ pc = "cleanup.sleep"
    /\ IF cancelled
       THEN /\ CleanupReturn(RetryError("Canceled", lastErr))
            /\ UNCHANGED elapsed
       ELSE /\ elapsed' = Wake(elapsed, CleanupPolling)
            /\ IF DeadlineHit(elapsed, CleanupPolling)
               THEN CleanupReturn(RetryError("DeadlineExceeded", lastErr))
               ELSE pc' = "cleanup.tick" /\ UNCHANGED <<result, sts>>
    /\ UNCHANGED <<obj, values, op, ticks, fetchLog, lastFetch, everFound, lastErr>>
    /\ UNCHANGED <<deployVars, enrichVars, auxVars>>

CallWait ==
    /\ Idle
    /\ \E val \in WaiterSnapshots : Call("Wait", val, "wait.tick")

\* every fetch error severe, not-found too
WaitVerdict_NotFoundSevere(err, o, val) ==
    IF err.type # "nil"
    THEN [v |-> "severe", err |-> err]
    ELSE LET checkErr == CheckStatefulSet(val.Replicas, o)
         IN IF checkErr.type # "nil" THEN [v |-> "minor", err |-> checkErr]
                                     ELSE [v |-> "ok", err |-> NilErr]

\* every fetch error minor
WaitVerdict_AllMinor(err, o, val) ==
    IF err.type # "nil"
    THEN [v |-> "minor", err |-> err]
    ELSE LET checkErr == CheckStatefulSet(val.Replicas, o)
         IN IF checkErr.type # "nil" THEN [v |-> "minor", err |-> checkErr]
                                     ELSE [v |-> "ok", err |-> NilErr]

\* the function Wait polls, lines 116-127: the verdict and its error
WaitVerdict(err, o, val) ==
    IF err.type # "nil"
    THEN IF IsNotFound(err) THEN [v |-> "minor", err |-> err]
                            ELSE [v |-> "severe", err |-> err]
    ELSE LET checkErr == CheckStatefulSet(val.Replicas, o)
         IN IF checkErr.type # "nil" THEN [v |-> "minor", err |-> checkErr]
                                     ELSE [v |-> "ok", err |-> NilErr]

\* Wait, line 128: a failed polling goes on to the enrichment
PollingReturn(err) ==
    IF err.type = "nil"
    THEN Finish(Plain(NilErr)) /\ UNCHANGED pollErr
    ELSE /\ pc' = "enrich"
         /\ pollErr' = err
         /\ UNCHANGED result

WaitTick ==
    /\ op = "Wait" /\ pc = "wait.tick"
    /\ ticks' = ticks + 1
    /\ \E out \in TickOutcomes(obj) :
          LET r == WaitVerdict(out.err, obj, values)
              answer == TickAnswer(out, CheckStatefulSet(values.Replicas, obj) = NilErr)
          IN /\ sts' = IF out.err.type = "nil" THEN DecodedForWait(obj, values) ELSE sts
             /\ lastFetch' = answer
             /\ fetchLog' = Log(answer.kind)
             /\ everFound' = (everFound \/ out.found)
             /\ CASE r.v = "ok" -> PollingReturn(NilErr) /\ UNCHANGED lastErr
                  [] r.v = "minor" -> /\ pc' = "wait.sleep"
                                      /\ lastErr' = r.err
                                      /\ UNCHANGED <<result, pollErr>>
                  [] r.v = "severe" -> /\ PollingReturn(r.err)
                                       /\ lastErr' = r.err
    /\ UNCHANGED <<obj, values, op, elapsed, listed, enrichErr>>
    /\ UNCHANGED <<deployVars, auxVars>>

WaitSleep ==
    /\ op = "Wait" /\ pc = "wait.sleep"
    /\ IF cancelled
       THEN /\ PollingReturn(RetryError("Canceled", lastErr))
            /\ UNCHANGED elapsed
       ELSE /\ elapsed' = Wake(elapsed, WaitPolling)
            /\ IF DeadlineHit(elapsed, WaitPolling)
               THEN PollingReturn(RetryError("DeadlineExceeded", lastErr))
               ELSE pc' = "wait.tick" /\ UNCHANGED <<result, pollErr>>
    /\ UNCHANGED <<obj, values, op, sts, ticks, fetchLog, lastFetch, everFound,
                   lastErr, listed, enrichErr>>
    /\ UNCHANGED <<deployVars, auxVars>>

\* ------------------------------------------------- diagnostic enrichment
HasPrefix(str, prefix) ==
    Len(prefix) <= Len(str) /\ SubSeq(str, 1, Len(prefix)) = prefix

\* fmt.Sprintf("%s-%s", a, b)
Dashed(a, b) == a \o <<"-">> \o b

\* warning events of a volume claim, oldest first; event i carries message i
Events(n) == [i \in 1..n |-> i]

PVC(name, phase, n) == [name |-> name, phase |-> phase, warnings |-> Events(n)]

\* volume claims a namespace may hold: the claim of replica 0 pending or
\* bound, the claim of another workload whose name starts alike, and an
\* unrelated claim
PVCPool ==
    << PVC(<<"d", "-", "e", "-", "0">>, "Pending", MaxEvents),
       PVC(<<"d", "-", "e", "-", "0">>, "Bound", 1),
       PVC(<<"d", "-", "e", "2", "-", "0">>, "Pending", 1),
       PVC(<<"x", "-", "e", "-", "0">>, "Pending", 1) >>

\* the listings: up to MaxPVCs claims with different names
PVCLists ==
    {<<>>} \cup {<<PVCPool[i]>> : i \in DOMAIN PVCPool}
    \cup (IF MaxPVCs < 2 THEN {} ELSE
          {<<PVCPool[i], PVCPool[j]>> : i \in {1, 2}, j \in {3, 4}}
          \cup {<<PVCPool[3], PVCPool[4]>>})
    \cup (IF MaxPVCs < 3 THEN {} ELSE
          {<<PVCPool[i], PVCPool[3], PVCPool[4]>> : i \in {1, 2}})

\* kutil.FetchEventMessages(..., EventTypeWarning, 2): the most recent
\* warning events of the claim, at most EventsLimit of them
FetchEventMessages(pvc) ==
    LET n == Len(pvc.warnings)
    IN IF n > EventsLimit THEN SubSeq(pvc.warnings, n - EventsLimit + 1, n)
                          ELSE pvc.warnings

\* the test of the phase inverted
Wanted_OnlyBound(pvc, template, name) ==
    HasPrefix(pvc.name, Dashed(template, name)) /\ pvc.phase = "Bound"

\* fetchPVCEventsFor, line 287: the claims of a template it asks events for
Wanted(pvc, template, name) ==
    HasPrefix(pvc.name, Dashed(template, name)) /\ pvc.phase # "Bound"

\* the claims fetchPVCEventsFor asks events for, lines 285-289, in order
RECURSIVE ClaimsOf(_, _, _)
ClaimsOf(templates, name, pvcs) ==
    IF templates = <<>> THEN <<>>
    ELSE LET Match(pvc) == Wanted(pvc, Head(templates), name)
         IN SelectSeq(pvcs, Match) \o ClaimsOf(Tail(templates), name, pvcs)

\* lines 290-296 for the claims in order: one entry per claim with events
RECURSIVE MessagesOf(_)
MessagesOf(claims) ==
    IF claims = <<>> THEN <<>>
    ELSE LET messages == FetchEventMessages(Head(claims))
         IN (IF messages # <<>>
             THEN <<[pvc |-> Head(claims).name, messages |-> messages]>>
             ELSE <<>>) \o MessagesOf(Tail(claims))

\* fetchPVCEventsFor, lines 275-300; listFails: the listing fails;
\* failAt: the fetch of events that fails, 0 for none
fetchPVCEventsFor(ss, pvcs, listFails, failAt) ==
    IF listFails THEN [messages |-> <<>>, failed |-> TRUE]
    ELSE LET claims == ClaimsOf(ss.templates, ss.name, pvcs)
         IN IF failAt \in 1..Len(claims)
            THEN [messages |-> <<>>, failed |-> TRUE]
            ELSE [messages |-> MessagesOf(claims), failed |-> FALSE]

\* fmt.Errorf("%w\n\n%s", err, messages)
Enriched(err, messages) == [err |-> err, sep |-> "\n\n", messages |-> messages]

\* the error of the enrichment returned in place of the polling error
WaitReturn_EnrichmentError(err, r) ==
    IF r.failed THEN Plain(APIError("EnrichmentFailed"))
    ELSE IF r.messages # <<>> THEN Enriched(err, r.messages)
    ELSE Plain(err)

\* Wait, lines 129-141: what Wait returns after a failed polling
WaitReturn(err, r) ==
    IF r.failed THEN Plain(err)
    ELSE IF r.messages # <<>> THEN Enriched(err, r.messages)
    ELSE Plain(err)

\* Wait, lines 128-141
WaitEnrich ==
    /\ op = "Wait" /\ pc = "enrich"
    /\ \E pvcs \in PVCLists, listFails \in BOOLEAN, failAt \in 0..MaxPVCs :
          LET r == fetchPVCEventsFor(sts, pvcs, listFails, failAt)
          IN /\ listFails => pvcs = <<>> /\ failAt = 0
             /\ cancelled => listFails
             /\ failAt > 0 => r.failed
             /\ listed' = pvcs
             /\ enrichErr' = IF listFails THEN -1 ELSE failAt
             /\ Finish(WaitReturn(pollErr, r))
    /\ UNCHANGED <<obj, values, op, sts, pollErr>>
    /\ UNCHANGED <<pollVars, deployVars, auxVars>>

\* ------------------------------------------------------------ the platform
\* The platform acts while an operation runs; what it does between two
\* calls is seen as done before the first step of the next call.
Running == ~Idle

callVars == <<values, op, pc, sts, result>>

\* the controllers of the platform report progress in the status
PlatformStatus ==
    /\ Running
    /\ obj.exists
    /\ \E r \in ReplicaCounts, ob \in BOOLEAN :
          obj' = [obj EXCEPT !.readyReplicas = r, !.observed = ob]
    /\ obj' # obj
    /\ UNCHANGED <<callVars, pollVars, deployVars, enrichVars, auxVars>>

\* the platform finishes a deletion, or another client deletes the object
PlatformDelete ==
    /\ Running
    /\ obj.exists
    /\ obj' = Absent
    /\ UNCHANGED <<callVars, pollVars, deployVars, enrichVars, auxVars>>

\* another client of the platform creates the object
PlatformCreate ==
    /\ Running
    /\ ~obj.exists
    /\ obj' \in LiveObjects
    /\ UNCHANGED <<callVars, pollVars, deployVars, enrichVars, auxVars>>

Next ==
    \/ CallDeploy
    \/ DeployGet
    \/ CallDestroy
    \/ DestroyStep
    \/ SyncStatefulset
    \/ CallWaitCleanup
    \/ WaitCleanupTick
    \/ WaitCleanupSleep
    \/ CallWait
    \/ WaitTick
    \/ WaitSleep
    \/ WaitEnrich
    \/ PlatformStatus
    \/ PlatformDelete
    \/ PlatformCreate

Spec == Init /\ [][Next]_vars

\* ------------------------------------------------------- cancellation
\* the caller cancels the context of the waiter it is running, while the
\* waiter polls: during a fetch or during the sleep
CallerCancel ==
    /\ op \in {"Wait", "WaitCleanup"}
    /\ pc \in {"wait.tick", "wait.sleep", "cleanup.tick", "cleanup.sleep"}
    /\ ~cancelled
    /\ cancelled' = TRUE
    /\ UNCHANGED <<obj, callVars, pollVars, deployVars, enrichVars, prev,
                   raceVars, composeVars>>

CancelNext ==
    \/ CallWait
    \/ WaitTick
    \/ WaitSleep
    \/ WaitEnrich
    \/ CallWaitCleanup
    \/ WaitCleanupTick
    \/ WaitCleanupSleep
    \/ PlatformStatus
    \/ PlatformDelete
    \/ PlatformCreate
    \/ CallerCancel

\* the waiters under a caller that may cancel
CancelSpec == Init /\ [][CancelNext]_vars

\* ------------------------------------------------------ a second Deploy
\* Two invocations of Deploy for the same identity and the same snapshot
\* run at once: the one above and the one kept in other.  Each platform
\* call of either is one step.  The second keeps its own sequence of
\* writes, its own ticks and its own clock.
OtherRunning == other.pc \notin {"idle", "done"}

\* what a step of the second invocation leaves alone
selfVars == <<callVars, pollVars, deployVars, enrichVars, prev, cancelled,
              composeVars>>

\* Deploy, lines 67-85, of the second invocation
OtherGet ==
    /\ other.pc = "get"
    /\ \E out \in GetOutcomes(obj) :
          LET o1 == [other EXCEPT !.gets = @ + 1,
                                  !.fetched = DeployAnswer(out, obj)]
          IN IF DeployAborts(out.err)
             THEN other' = [o1 EXCEPT !.pc = "done", !.result = Plain(out.err)]
             ELSE LET s == IF out.err.type = "nil" THEN Decoded(obj, values)
                                                   ELSE emptyStatefulset(values)
                  IN other' = [o1 EXCEPT !.sts = s,
                                         !.pc = IF NeedsRecreate(s, values)
                                                THEN "destroy" ELSE "sync"]
    /\ UNCHANGED <<obj, selfVars>>

\* lines 79-82 of the second invocation: the delete of OpDestroyAndWait
OtherDestroy ==
    /\ other.pc = "destroy"
    /\ \E out \in DeleteOutcomes(obj) :
          LET err == IgnoreNotFound(out.err)
              o1 == [other EXCEPT !.issued = Append(@, "delete"),
                                  !.answers = Append(@, out.err.code)]
          IN /\ obj' = out.next
             /\ other' = IF err.type # "nil"
                          THEN [o1 EXCEPT !.pc = "done", !.result = Plain(err)]
                          ELSE [o1 EXCEPT !.pc = "cleanup.tick"]
    /\ UNCHANGED selfVars

\* WaitCleanup, lines 144-158, of the second invocation
OtherCleanupTick ==
    /\ other.pc = "cleanup.tick"
    /\ \E out \in GetOutcomes(obj) :
          LET v == CleanupVerdict(out.err)
              o1 == [other EXCEPT !.ticks = @ + 1,
                                  !.lastFetch = TickAnswer(out, FALSE)]
          IN other' =
                CASE v = "ok" -> [o1 EXCEPT !.pc = "sync",
                                            !.sts = emptyStatefulset(values)]
                  [] v = "retry" -> [o1 EXCEPT !.pc = "cleanup.sleep"]
                  [] v = "severe" -> [o1 EXCEPT !.pc = "done",
                                                !.result = Plain(out.err)]
    /\ UNCHANGED <<obj, selfVars>>

OtherCleanupSleep ==
    /\ other.pc = "cleanup.sleep"
    /\ LET o1 == [other EXCEPT !.elapsed = Wake(@, CleanupPolling)]
       IN other' = IF DeadlineHit(other.elapsed, CleanupPolling)
                   THEN [o1 EXCEPT !.pc = "done",
                            !.result = Plain(RetryError("DeadlineExceeded", NilErr))]
                   ELSE [o1 EXCEPT !.pc = "cleanup.tick"]
    /\ UNCHANGED <<obj, selfVars>>

\* syncStatefulset, lines 160-269, of the second invocation
OtherSync ==
    /\ other.pc = "sync"
    /\ LET stsOriginal == other.sts
           want == Composed(values)
           write == IF ShouldPatch(stsOriginal) THEN "patch" ELSE "create"
       IN \E out \in IF write = "patch" THEN PatchOutcomes(obj, want)
                                         ELSE CreateOutcomes(obj, want) :
             /\ obj' = out.next
             /\ other' = [other EXCEPT !.issued = Append(@, write),
                                       !.answers = Append(@, out.err.code),
                                       !.pc = "done",
                                       !.result = SyncReturn(out.err)]
    /\ UNCHANGED selfVars

\* the platform finishes a deletion while either invocation runs
RaceDelete ==
    /\ Running \/ OtherRunning
    /\ obj.exists
    /\ obj' = Absent
    /\ UNCHANGED <<callVars, pollVars, deployVars, enrichVars, auxVars>>

\* the snapshots and the objects of the two invocations: Deploy reads
\* neither the status of the object nor more than whether the snapshot
\* records a scale-up
RaceSnapshots == {val \in Snapshots : val.Replicas = 3 /\ val.StatusReplicas # 0}

RaceObjects ==
    {Absent} \cup {o \in LiveObjects : o.readyReplicas = 0 /\ ~o.observed}

\* both invocations have been called and neither has made its fetch
RaceInit ==
    /\ obj \in RaceObjects
    /\ values \in RaceSnapshots
    /\ op = "Deploy"
    /\ pc = "get"
    /\ sts = emptyStatefulset(values)
    /\ issued = <<>>
    /\ answers = <<>>
    /\ gets = 0
    /\ fetched = NoAnswer
    /\ result = NoResult
    /\ pollErr = NilErr
    /\ elapsed = 0
    /\ ticks = 0
    /\ fetchLog = <<>>
    /\ lastFetch = NoTick
    /\ everFound = FALSE
    /\ lastErr = NilErr
    /\ listed = <<>>
    /\ enrichErr = 0
    /\ prev = NoCall
    /\ cancelled = FALSE
    /\ other = [OtherIdle EXCEPT !.pc = "get", !.sts = emptyStatefulset(values)]
    /\ snap = Unused
    /\ target = Unused
    /\ submitted = Unused
    /\ stored = Unused

RaceNext ==
    \/ DeployGet
    \/ DestroyStep
    \/ WaitCleanupTick
    \/ WaitCleanupSleep
    \/ SyncStatefulset
    \/ OtherGet
    \/ OtherDestroy
    \/ OtherCleanupTick
    \/ OtherCleanupSleep
    \/ OtherSync
    \/ RaceDelete

RaceSpec == RaceInit /\ [][RaceNext]_vars

\* ===================================================================
\* The composition in full: syncStatefulset with the object it is handed,
\* the working copy it composes and the write it hands to the platform.
\* Deploy above decides which object syncStatefulset is handed; here the
\* object is the placeholder or any fetched object.  The identity of the
\* snapshot is kept as text, nothing here reads its characters.
\* ===================================================================
\* a pointer that is nil
Nil == "<nil>"

\* what a dereferenced nil pointer leaves of the composition
Panic == "<panic>"

\* *p
Deref(p) == IF p = Nil THEN Panic ELSE p

\* pointer.StringDeref, pointer.Int32Deref
DerefOr(p, def) == IF p = Nil THEN def ELSE p

EmptyMap == [k \in {} |-> ""]

\* val.BackupStore when the snapshot has no backup store
NilStore == [isNil |-> TRUE]

\* utils.MergeStringMaps: the entries of the second map laid over the first
MergeStringMaps(oldMap, newMap) ==
    [k \in DOMAIN oldMap \cup DOMAIN newMap |->
        IF k \in DOMAIN newMap THEN newMap[k] ELSE oldMap[k]]

\* the kinds of backup storage, utils.Local and the object stores
ProviderKinds == {"Local", "GCS", "S3", "ABS", "OSS", "Swift", "OCS", "ECS"}

\* utils.StorageProviderFromInfraProvider: the kind of a provider
\* identifier; no identifier gives no kind and no error
StorageProviderFromInfraProvider(infra) ==
    CASE infra = Nil -> [provider |-> "", err |-> FALSE]
      [] infra \in ProviderKinds -> [provider |-> infra, err |-> FALSE]
      [] infra = "aws" -> [provider |-> "S3", err |-> FALSE]
      [] infra = "gcp" -> [provider |-> "GCS", err |-> FALSE]
      [] OTHER -> [provider |-> "", err |-> TRUE]

\* the fixed defaults of the package
defaultResourceRequirements == "50m/128Mi"
defaultStorageCapacity == "default-capacity"
defaultServerPort == "default-server-port"
defaultClientPort == "default-client-port"
defaultBackupPort == "default-backup-port"

\* val.Labels of the snapshots
UserLabels ==
    {EmptyMap, [app |-> "x"], [name |-> "etcd"], [instance |-> "o"]}

\* val.BackupStore of the snapshots
BackupStores ==
    {NilStore} \cup
    [Provider : {Nil, "Local", "gcp", "aws", "ABS", "OSS", "Swift", "OCS",
                 "ECS", "unknown"},
     Container : {Nil, "bucket"},
     SecretRef : {Nil, "secret"}]

\* the snapshots syncStatefulset composes from: the optional resources,
\* capacity and ports are given one by one on the snapshot without labels,
\* TLS and backup store, and all or none of them on every other
ComposerSnapshots ==
    {val \in [Name : {"e"}, VolumeClaimTemplateName : {"d"},
              Labels : UserLabels,
              ClientUrlTLS : BOOLEAN, PeerUrlTLS : BOOLEAN,
              BackupStore : BackupStores,
              Resources : {Nil, "1/1Gi"},
              StorageCapacity : {Nil, "25Gi"},
              Ports : {Nil, "2400"}] :
        \/ (val.Resources = Nil) = (val.StorageCapacity = Nil)
              /\ (val.Resources = Nil) = (val.Ports = Nil)
        \/ /\ val.Labels = EmptyMap
           /\ ~val.ClientUrlTLS /\ ~val.PeerUrlTLS
           /\ val.BackupStore = NilStore}

getCommonLabels(val) == [name |-> "etcd", instance |-> val.Name]

\* getObjectMeta, lines 329-358: the labels of the object
getObjectMeta(val) ==
    [labels |-> MergeStringMaps(getCommonLabels(val), val.Labels),
     finalizers |-> {}]

getEtcdPorts(val) ==
    <<DerefOr(val.Ports, defaultServerPort), DerefOr(val.Ports, defaultClientPort)>>

getBackupPorts(val) == <<DerefOr(val.Ports, defaultBackupPort)>>

getEtcdResources(val) ==
    IF val.Resources # Nil THEN val.Resources ELSE defaultResourceRequirements

getBackupResources(val) ==
    IF val.Resources # Nil THEN val.Resources ELSE defaultResourceRequirements

getStorageReq(val) ==
    IF val.StorageCapacity # Nil THEN val.StorageCapacity ELSE defaultStorageCapacity

\* corev1.VolumeMount: the volume mounted and the path it is mounted at
VolumeMount(name, mountPath) == [name |-> name, mountPath |-> mountPath]

getSecretVolumeMounts(clientUrlTLS, peerUrlTLS) ==
    (IF clientUrlTLS
     THEN <<VolumeMount("client-url-ca-etcd", "/var/etcd/ssl/client/ca"),
            VolumeMount("client-url-etcd-server-tls", "/var/etcd/ssl/client/server"),
            VolumeMount("client-url-etcd-client-tls", "/var/etcd/ssl/client/client")>>
     ELSE <<>>)
    \o (IF peerUrlTLS
        THEN <<VolumeMount("peer-url-ca-etcd", "/var/etcd/ssl/peer/ca"),
               VolumeMount("peer-url-etcd-server-tls", "/var/etcd/ssl/peer/server")>>
        ELSE <<>>)

\* the volumes the etcd container mounts
getEtcdVolumeMounts(val) ==
    <<VolumeMount(val.VolumeClaimTemplateName, "/var/etcd/data/")>>
    \o getSecretVolumeMounts(val.ClientUrlTLS, val.PeerUrlTLS)

\* every kind without a case of its own mounting the secret
getBackupRestoreVolumeMounts_DefaultCase(val) ==
    LET vms == <<VolumeMount(val.VolumeClaimTemplateName, "/var/etcd/data"),
                 VolumeMount("etcd-config-file", "/var/etcd/config/")>>
               \o getSecretVolumeMounts(val.ClientUrlTLS, val.PeerUrlTLS)
    IN IF val.BackupStore = NilStore THEN vms
       ELSE LET provider ==
                    StorageProviderFromInfraProvider(val.BackupStore.Provider).provider
            IN CASE provider = "Local" ->
                       IF val.BackupStore.Container # Nil
                       THEN Append(vms, VolumeMount("host-storage",
                                                    val.BackupStore.Container))
                       ELSE vms
                 [] provider = "GCS" ->
                       Append(vms, VolumeMount("etcd-backup", "/root/.gcp/"))
                 [] OTHER ->
                       Append(vms, VolumeMount("etcd-backup", "/root/etcd-backup/"))

\* the volumes the backup-restore container mounts, lines 451-495
getBackupRestoreVolumeMounts(val) ==
    LET vms == <<VolumeMount(val.VolumeClaimTemplateName, "/var/etcd/data"),
                 VolumeMount("etcd-config-file", "/var/etcd/config/")>>
               \o getSecretVolumeMounts(val.ClientUrlTLS, val.PeerUrlTLS)
    IN IF val.BackupStore = NilStore THEN vms
       ELSE LET r == StorageProviderFromInfraProvider(val.BackupStore.Provider)
            IN IF r.err THEN vms
               ELSE CASE r.provider = "Local" ->
                             IF val.BackupStore.Container # Nil
                             THEN Append(vms, VolumeMount("host-storage",
                                                  val.BackupStore.Container))
                             ELSE vms
                      [] r.provider = "GCS" ->
                             Append(vms, VolumeMount("etcd-backup", "/root/.gcp/"))
                      [] r.provider \in {"S3", "ABS", "OSS", "Swift", "OCS"} ->
                             Append(vms, VolumeMount("etcd-backup",
                                                     "/root/etcd-backup/"))
                      [] OTHER -> vms

Volume(name, source) == [name |-> name, source |-> source]

\* the volumes every pod has, lines 528-592
BaseVolumes(val) ==
    <<Volume("etcd-config-file", "configmap")>>
    \o (IF val.ClientUrlTLS
        THEN <<Volume("client-url-ca-etcd", "secret"),
               Volume("client-url-etcd-server-tls", "secret"),
               Volume("client-url-etcd-client-tls", "secret")>>
        ELSE <<>>)
    \o (IF val.PeerUrlTLS
        THEN <<Volume("peer-url-ca-etcd", "secret"),
               Volume("peer-url-etcd-server-tls", "secret")>>
        ELSE <<>>)

\* the list of kinds of line 616 without the last
getVolumes_NoOCS(val) ==
    LET vs == BaseVolumes(val)
    IN IF val.BackupStore = NilStore THEN vs
       ELSE LET storeValues == val.BackupStore
                r == StorageProviderFromInfraProvider(storeValues.Provider)
            IN IF r.err THEN vs
               ELSE CASE r.provider = "Local" ->
                             Append(vs, Volume("host-storage",
                                               Deref(storeValues.Container)))
                      [] r.provider \in {"GCS", "S3", "OSS", "ABS", "Swift"} ->
                             Append(vs, Volume("etcd-backup",
                                               Deref(storeValues.SecretRef)))
                      [] OTHER -> vs

\* the volumes of the pod, lines 527-628; the source of the volume of the
\* backup store is the dereferenced container or secret reference
getVolumes(val) ==
    LET vs == BaseVolumes(val)
    IN IF val.BackupStore = NilStore THEN vs
       ELSE LET storeValues == val.BackupStore
                r == StorageProviderFromInfraProvider(storeValues.Provider)
            IN IF r.err THEN vs
               ELSE CASE r.provider = "Local" ->
                             Append(vs, Volume("host-storage",
                                               Deref(storeValues.Container)))
                      [] r.provider \in {"GCS", "S3", "OSS", "ABS", "Swift", "OCS"} ->
                             Append(vs, Volume("etcd-backup",
                                               Deref(storeValues.SecretRef)))
                      [] OTHER -> vs

getEnvVarFromValue(name, value) ==
    [name |-> name, from |-> "value", value |-> value, key |-> ""]

getEnvVarFromField(name, fieldPath) ==
    [name |-> name, from |-> "field", value |-> fieldPath, key |-> ""]

getEnvVarFromSecrets(name, secretName, secretKey) ==
    [name |-> name, from |-> "secret", value |-> secretName, key |-> secretKey]

\* the path the TODO of line 655 asks for, with the mount left where it is
credentialsMountPath_NonRoot == "/var/etcd-backup"

credentialsMountPath == "/root/etcd-backup"

\* the environment of the backup-restore container, lines 630-683
getBackupRestoreEnvVars(val) ==
    LET storeValues == val.BackupStore
        storageContainer ==
            IF val.BackupStore # NilStore THEN DerefOr(val.BackupStore.Container, "")
                                     ELSE ""
        env == <<getEnvVarFromValue("STORAGE_CONTAINER", storageContainer),
                 getEnvVarFromField("POD_NAME", "metadata.name"),
                 getEnvVarFromField("POD_NAMESPACE", "metadata.namespace")>>
    IN IF storeValues = NilStore THEN env
       ELSE LET r == StorageProviderFromInfraProvider(val.BackupStore.Provider)
                Cred(name) == Append(env, getEnvVarFromValue(name, credentialsMountPath))
            IN IF r.err THEN env
               ELSE CASE r.provider = "S3" -> Cred("AWS_APPLICATION_CREDENTIALS")
                      [] r.provider = "ABS" -> Cred("AZURE_APPLICATION_CREDENTIALS")
                      [] r.provider = "GCS" ->
                             Append(env, getEnvVarFromValue(
                                             "GOOGLE_APPLICATION_CREDENTIALS",
                                             "/root/.gcp/serviceaccount.json"))
                      [] r.provider = "Swift" -> Cred("OPENSTACK_APPLICATION_CREDENTIALS")
                      [] r.provider = "OSS" -> Cred("ALICLOUD_APPLICATION_CREDENTIALS")
                      [] r.provider = "ECS" ->
                             env \o
                             <<getEnvVarFromSecrets("ECS_ENDPOINT",
                                   Deref(storeValues.SecretRef), "endpoint"),
                               getEnvVarFromSecrets("ECS_ACCESS_KEY_ID",
                                   Deref(storeValues.SecretRef), "accessKeyID"),
                               getEnvVarFromSecrets("ECS_SECRET_ACCESS_KEY",
                                   Deref(storeValues.SecretRef), "secretAccessKey")>>
                      [] r.provider = "OCS" -> Cred("OPENSHIFT_APPLICATION_CREDENTIALS")
                      [] OTHER -> env

\* the spec syncStatefulset composes, lines 167-259, as far as it is
\* followed here; labels are the labels line 166 has put on the object
ComposedInFull(val, labels) ==
    [selector |-> getCommonLabels(val),
     templateLabels |-> labels,
     etcd |-> [ports |-> getEtcdPorts(val),
               resources |-> getEtcdResources(val),
               mounts |-> getEtcdVolumeMounts(val)],
     backup |-> [ports |-> getBackupPorts(val),
                 resources |-> getBackupResources(val),
                 env |-> getBackupRestoreEnvVars(val),
                 mounts |-> getBackupRestoreVolumeMounts(val)],
     volumes |-> getVolumes(val),
     templates |-> <<val.VolumeClaimTemplateName>>,
     storage |-> getStorageReq(val)]

\* a nil pointer was dereferenced while the spec was composed
Panicked(spec) ==
    \/ \E i \in DOMAIN spec.volumes : spec.volumes[i].source = Panic
    \/ \E i \in DOMAIN spec.backup.env : spec.backup.env[i].value = Panic

\* c.emptyStatefulset() in full: no generation, no metadata, no spec
PlaceholderInFull ==
    [generation |-> 0, labels |-> EmptyMap, finalizers |-> {},
     spec |-> Unused, status |-> [readyReplicas |-> 0]]

\* the snapshot the fetched objects were created from
FirstSnapshot ==
    [Name |-> "e", VolumeClaimTemplateName |-> "d", Labels |-> EmptyMap,
     ClientUrlTLS |-> FALSE, PeerUrlTLS |-> FALSE, BackupStore |-> NilStore,
     Resources |-> Nil, StorageCapacity |-> Nil, Ports |-> Nil]

\* the objects a fetch returns: created by the component, with the status
\* the platform reports and with the labels and finalizers other clients
\* of the platform have put on them
FetchedInFull ==
    [generation : {1},
     labels : {getCommonLabels(FirstSnapshot),
               MergeStringMaps(getCommonLabels(FirstSnapshot), [owner |-> "team"])},
     finalizers : {{}, {"hold"}},
     spec : {ComposedInFull(FirstSnapshot, getCommonLabels(FirstSnapshot))},
     status : {[readyReplicas |-> 0], [readyReplicas |-> 3]}]

\* lines 162-259: the working copy, the object handed in with its metadata
\* and its spec replaced; the status is left as it was
WorkingCopy(stsOriginal, val) ==
    LET meta == getObjectMeta(val)
    IN [stsOriginal EXCEPT !.generation = 0,
                           !.labels = meta.labels,
                           !.finalizers = meta.finalizers,
                           !.spec = ComposedInFull(val, meta.labels)]

\* the fields a patch can carry
PatchFields == {"labels", "finalizers", "spec", "status"}

\* client.StrategicMergeFrom(stsOriginal): the fields in which the working
\* copy differs from the baseline, with their value in the working copy
StrategicMergeFrom(stsOriginal, work) ==
    [f \in {g \in PatchFields : work[g] # stsOriginal[g]} |-> work[f]]

\* the platform forbids a selector that does not match the pod template
SelectorMatches(spec) ==
    \A k \in DOMAIN spec.selector :
        k \in DOMAIN spec.templateLabels /\ spec.templateLabels[k] = spec.selector[k]

\* the platform merging a patch into the object it holds; a patch that
\* changes the spec bumps the generation
ApplyPatch(cur, patch) ==
    [f \in DOMAIN cur |->
        IF f \in DOMAIN patch THEN patch[f]
        ELSE IF f = "generation" /\ "spec" \in DOMAIN patch THEN cur[f] + 1
        ELSE cur[f]]

\* what syncStatefulset handed to the platform
Submission(write, panic, rejected, work, patch) ==
    [write |-> write, panic |-> panic, rejected |-> rejected, sts |-> work,
     patch |-> patch]

\* the variables of the operations above, which rest during a composition
coreVars == <<obj, values, op, pc, sts, result, pollVars, deployVars, enrichVars,
              prev, cancelled, raceVars>>

ComposerInit ==
    /\ obj = Absent
    /\ values = [Name |-> ObjectName, VolumeClaimTemplateName |-> TemplateName,
                 Replicas |-> 1, StatusReplicas |-> 1, ServiceName |-> "etcd-peer"]
    /\ op = "none"
    /\ pc = "idle"
    /\ sts = emptyStatefulset(values)
    /\ issued = <<>>
    /\ answers = <<>>
    /\ gets = 0
    /\ fetched = NoAnswer
    /\ result = NoResult
    /\ pollErr = NilErr
    /\ elapsed = 0
    /\ ticks = 0
    /\ fetchLog = <<>>
    /\ lastFetch = NoTick
    /\ everFound = FALSE
    /\ lastErr = NilErr
    /\ listed = <<>>
    /\ enrichErr = 0
    /\ prev = NoCall
    /\ cancelled = FALSE
    /\ other = OtherIdle
    /\ snap \in ComposerSnapshots
    /\ target \in {PlaceholderInFull} \cup FetchedInFull
    /\ submitted = Unused
    /\ stored = target

\* syncStatefulset, lines 160-269, in full: the baseline, the working copy,
\* and the patch or the create
SyncInFull ==
    /\ submitted = Unused
    /\ LET stsOriginal == target
           work == WorkingCopy(target, snap)
           patch == StrategicMergeFrom(stsOriginal, work)
       IN IF Panicked(work.spec)
          THEN /\ submitted' = Submission("none", TRUE, FALSE, work, EmptyMap)
               /\ UNCHANGED stored
          ELSE IF ShouldPatch(stsOriginal)
          THEN /\ submitted' = Submission("patch", FALSE, ~SelectorMatches(work.spec),
                                          work, patch)
               /\ stored' = IF SelectorMatches(work.spec)
                            THEN ApplyPatch(stored, patch) ELSE stored
          ELSE /\ submitted' = Submission("create", FALSE, ~SelectorMatches(work.spec),
                                          work, EmptyMap)
               /\ stored' = IF SelectorMatches(work.spec)
                            THEN [work EXCEPT !.generation = 1] ELSE stored
    /\ UNCHANGED <<snap, target>>
    /\ UNCHANGED coreVars

\* the next reconciliation of the snapshot: Deploy fetches the object the
\* platform holds and hands it to syncStatefulset
Resync ==
    /\ submitted # Unused
    /\ ~submitted.panic
    /\ stored.generation > 0
    /\ target' = stored
    /\ submitted' = Unused
    /\ UNCHANGED <<snap, stored>>
    /\ UNCHANGED coreVars

ComposerNext ==
    \/ SyncInFull
    \/ Resync

ComposerSpec == ComposerInit /\ [][ComposerNext]_vars

\* ===================================================================
\* Properties
\* ===================================================================
InSeq(x, seq) == \E i \in DOMAIN seq : seq[i] = x

\* the fetch of the running Deploy returned an object with generation > 1
\* while the snapshot asks for more than one replica and records 0 or 1
ScaleUpCase ==
    /\ op = "Deploy"
    /\ fetched.kind = "found"
    /\ fetched.generation > 1
    /\ values.Replicas > 1
    /\ values.StatusReplicas \in {0, 1}

\* C1 as stated: in the scale-up case Deploy issues a delete followed by a
\* create and never a patch, whatever the service names are.
C1_AsStated ==
    (ScaleUpCase /\ pc = "done")
        => /\ ~InSeq("patch", issued)
           /\ issued # <<>> /\ issued[1] = "delete"
           /\ result.err = NilErr => issued = <<"delete", "create">>

\* C1 amended: in the scale-up case, when the service name recorded on the
\* fetched object differs from the snapshot's, Deploy issues a delete first
\* and never a patch; it goes on to the create unless the delete or the
\* teardown wait failed, and a Deploy that succeeds has issued exactly a
\* delete followed by a create.
C1_Migration ==
    (ScaleUpCase /\ fetched.serviceName # values.ServiceName)
        => /\ issued \in {<<>>, <<"delete">>, <<"delete", "create">>}
           /\ pc = "done" => issued # <<>>
           /\ (pc = "done" /\ result.err = NilErr) => issued = <<"delete", "create">>
           /\ (pc = "done" /\ issued = <<"delete">>)
                 => (result.err # NilErr /\ lastFetch.kind # "notfound")

C1_Witness ==
    /\ ScaleUpCase
    /\ fetched.serviceName # values.ServiceName
    /\ values.StatusReplicas = 0
    /\ pc = "done"
    /\ result.err = NilErr
    /\ issued = <<"delete", "create">>

\* C2: Deploy issues a delete only in the scale-up case; in every other
\* case in which the fetch returned an object (generation >= 1) Deploy
\* issues exactly one patch, no delete and no create.
C2_PatchUnlessScaleUp ==
    /\ (op = "Deploy" /\ InSeq("delete", issued)) => ScaleUpCase
    /\ (op = "Deploy" /\ fetched.kind = "found" /\ fetched.generation >= 1
            /\ ~ScaleUpCase)
        => /\ issued \in {<<>>, <<"patch">>}
           /\ pc = "done" => issued = <<"patch">>

C2_Witness ==
    /\ op = "Deploy" /\ pc = "done"
    /\ fetched.kind = "found" /\ fetched.generation = 1
    /\ values.Replicas = 3 /\ values.StatusReplicas = 1
    /\ fetched.serviceName # values.ServiceName
    /\ issued = <<"patch">>

\* C3: when the fetch of Deploy returns not-found, Deploy issues exactly
\* one create, no patch and no delete, whatever the replica counts are.
C3_AbsentCreates ==
    (op = "Deploy" /\ fetched.kind = "notfound")
        => /\ issued \in {<<>>, <<"create">>}
           /\ pc = "done" => issued = <<"create">>

C3_Witness ==
    /\ op = "Deploy" /\ pc = "done"
    /\ fetched.kind = "notfound"
    /\ values.Replicas = 3 /\ values.StatusReplicas = 1
    /\ issued = <<"create">>

\* C4: when the fetch of Deploy fails with an error other than not-found,
\* Deploy returns that error and issues no create, patch or delete.
C4_FetchErrorAborts ==
    (op = "Deploy" /\ fetched.kind = "error")
        => /\ pc = "done"
           /\ result = Plain(APIError(fetched.code))
           /\ issued = <<>>
           /\ gets = 1

C4_Witness ==
    /\ op = "Deploy" /\ pc = "done"
    /\ fetched.kind = "error" /\ fetched.code = "Forbidden"
    /\ result.err = APIError("Forbidden")
    /\ issued = <<>>

\* the latest tick neither succeeded nor failed severely
MinorTick == lastFetch.kind \in {"notfound", "present"}

\* the minor error of the latest tick of Wait
MinorErrOfTick ==
    IF lastFetch.kind = "notfound" THEN APIError("NotFound") ELSE NotReadyErr

\* the recorded fetch sequence starts with the given answers
LogStartsWith(prefix) ==
    Len(fetchLog) >= Len(prefix) /\ SubSeq(fetchLog, 1, Len(prefix)) = prefix

\* the time of tick number n when ticks are 5 units apart
TickTime(n) == 5 * (n - 1)

\* C5: Wait keeps polling while a tick's fetch returns not-found or the
\* readiness predicate fails (it ends after such a tick only at the
\* deadline), and returns success at the first tick whose fetch succeeds and
\* whose predicate passes, with no fetch after it; for the fetch sequence
\* not-found, not-found, ready it succeeds on the 3rd tick within 15 units.
C5_PollsUntilReady ==
    op = "Wait" =>
        /\ MinorTick =>
              \/ pc \in {"wait.sleep", "wait.tick"}
              \/ /\ pc \in {"enrich", "done"}
                 /\ pollErr.type = "retry"
                 /\ elapsed = 90
        /\ lastFetch.kind = "ready" =>
              /\ pc = "done"
              /\ result = Plain(NilErr)
              /\ elapsed = TickTime(ticks)
              /\ \A i \in DOMAIN fetchLog :
                    i < ticks => fetchLog[i] \in {"notfound", "present"}
        /\ (pc = "done" /\ result.err = NilErr) => lastFetch.kind = "ready"
        /\ (LogStartsWith(<<"notfound", "notfound">>) /\ ticks = 3
                /\ lastFetch.kind = "ready")
              => (pc = "done" /\ result.err = NilErr /\ elapsed <= 15)

C5_Witness ==
    /\ op = "Wait" /\ pc = "done"
    /\ LogStartsWith(<<"notfound", "notfound">>)
    /\ ticks = 3
    /\ lastFetch.kind = "ready"
    /\ result.err = NilErr
    /\ elapsed = 10

\* C6: in Wait the first tick whose fetch fails with an error other than
\* not-found ends the polling at once: no later tick, the returned error is
\* that fetch error and not a timeout, however much of the deadline is left.
C6_SevereEndsPolling ==
    (op = "Wait" /\ lastFetch.kind = "error")
        => /\ pc \in {"enrich", "done"}
           /\ pollErr = APIError(lastFetch.code)
           /\ pc = "done" => result.err = APIError(lastFetch.code)
           /\ elapsed = TickTime(ticks)
           /\ \A i \in DOMAIN fetchLog : i < ticks => fetchLog[i] # "error"

C6_Witness ==
    /\ op = "Wait" /\ pc = "done"
    /\ lastFetch = [kind |-> "error", code |-> "ServerTimeout"]
    /\ ticks = 2
    /\ elapsed = 5
    /\ result.err = APIError("ServerTimeout")

\* the fairness the scheduling of the code gives: a step of a running
\* operation that can be taken is taken
LiveSpec ==
    /\ Spec
    /\ WF_vars(DeployGet) /\ WF_vars(DestroyStep) /\ WF_vars(SyncStatefulset)
    /\ WF_vars(WaitCleanupTick) /\ WF_vars(WaitCleanupSleep)
    /\ WF_vars(WaitTick) /\ WF_vars(WaitSleep) /\ WF_vars(WaitEnrich)

WaiterCall == op \in {"Wait", "WaitCleanup"}

C7_Bounded ==
    /\ ticks <= 18
    /\ elapsed <= 90
    /\ elapsed % 5 = 0
    /\ pc \in {"wait.tick", "cleanup.tick"} => elapsed = 5 * ticks
    /\ pc \in {"wait.sleep", "cleanup.sleep"} => elapsed = TickTime(ticks)
    /\ (WaiterCall /\ result.err.type = "retry")
          => (result.err.code = "DeadlineExceeded" /\ elapsed = 90 /\ ticks = 18)
    /\ (WaiterCall /\ pc = "done" /\ result.err # NilErr /\ lastFetch.kind # "error")
          => (result.err.type = "retry" /\ elapsed = 90)

\* C7: every call of Wait and of WaitCleanup terminates; a call with neither
\* a success nor a severe failure ends in Timeout when 90 units have passed
\* since its start, its ticks are 5 units apart, so that it makes at most 18
\* fetches, and this holds of both waiters alike.
C7_WaitersTerminate ==
    /\ []C7_Bounded
    /\ (WaiterCall /\ Running) ~> (WaiterCall /\ pc = "done")

C7_Witness ==
    /\ op = "WaitCleanup" /\ pc = "done"
    /\ result.err = RetryError("DeadlineExceeded", NilErr)
    /\ elapsed = 90
    /\ ticks = 18

\* the claim of the volume claim template of the snapshot that is not bound
OwnPendingClaim(pvc) ==
    /\ HasPrefix(pvc.name, Dashed(values.VolumeClaimTemplateName, values.Name))
    /\ pvc.phase # "Bound"

\* the returned text holds message m for the claim pvc
TextHolds(pvc, m) ==
    \E j \in DOMAIN result.messages :
        /\ result.messages[j].pvc = pvc.name
        /\ InSeq(m, result.messages[j].messages)

WaitTimedOut ==
    /\ op = "Wait" /\ pc = "done"
    /\ result.err.type = "retry"
    /\ enrichErr = 0

\* C8 as stated: when Wait ends in Timeout, whatever the fetches returned,
\* and the enrichment succeeds, the returned text holds every warning
\* message of every claim with the prefix that is not bound.
C8_AsStated ==
    WaitTimedOut =>
        \A i \in DOMAIN listed : OwnPendingClaim(listed[i]) =>
            \A k \in DOMAIN listed[i].warnings :
                TextHolds(listed[i], listed[i].warnings[k])

\* C8 amended: when Wait ends in Timeout after at least one tick fetched
\* the object (which carries the volume claim template of the snapshot),
\* and the enrichment succeeds, the returned text holds, for every claim
\* with the prefix that is not bound, its two most recent warning messages.
C8_TimeoutEnriched ==
    (WaitTimedOut /\ everFound) =>
        \A i \in DOMAIN listed : OwnPendingClaim(listed[i]) =>
            \A k \in DOMAIN listed[i].warnings :
                k > Len(listed[i].warnings) - 2
                    => TextHolds(listed[i], listed[i].warnings[k])

C8_Witness ==
    /\ WaitTimedOut /\ everFound
    /\ LogStartsWith(<<"notfound", "present">>)
    /\ Len(listed) = 2
    /\ OwnPendingClaim(listed[1]) /\ Len(listed[1].warnings) = MaxEvents
    /\ TextHolds(listed[1], MaxEvents)
    /\ result.sep = "\n\n"

\* the error the polling of the running Wait ended with, told from what the
\* platform answered
PrimaryError ==
    IF lastFetch.kind = "error" THEN APIError(lastFetch.code)
    ELSE RetryError("DeadlineExceeded", MinorErrOfTick)

\* C9: the enrichment never masks the failure of Wait: when the listing or
\* a fetch of events fails, Wait returns the polling error alone; when the
\* enrichment succeeds, Wait returns the polling error, with the messages
\* of the claims after a blank line if there are any; Wait never returns
\* success or another error when the polling failed.
C9_EnrichmentNeverMasks ==
    (op = "Wait" /\ pc = "done" /\ lastFetch.kind # "ready")
        => /\ result.err = PrimaryError
           /\ pollErr = PrimaryError
           /\ enrichErr # 0 => result = Plain(PrimaryError)
           /\ enrichErr = 0 =>
                 \/ result = Plain(PrimaryError)
                 \/ /\ result.sep = "\n\n"
                    /\ result.messages # <<>>
                    /\ \A j \in DOMAIN result.messages :
                          /\ result.messages[j].messages # <<>>
                          /\ \E i \in DOMAIN listed :
                                result.messages[j].pvc = listed[i].name

C9_Witness ==
    /\ op = "Wait" /\ pc = "done"
    /\ enrichErr = 2
    /\ Len(listed) = 2
    /\ OwnPendingClaim(listed[1]) /\ listed[1].warnings # <<>>
    /\ result = Plain(PrimaryError)
    /\ lastFetch.kind = "error"

\* C10: in WaitCleanup a tick whose fetch returns not-found ends the wait
\* with success at once, a tick that finds the object goes on polling, a
\* tick whose fetch fails otherwise ends the wait at once with that error;
\* for the fetch sequence present, not-found it succeeds after 2 ticks.
C10_TeardownWaiter ==
    op = "WaitCleanup" =>
        /\ lastFetch.kind = "notfound" =>
              (pc = "done" /\ result = Plain(NilErr) /\ elapsed = TickTime(ticks))
        /\ lastFetch.kind = "present" =>
              \/ pc \in {"cleanup.sleep", "cleanup.tick"}
              \/ /\ pc = "done"
                 /\ result = Plain(RetryError("DeadlineExceeded", NilErr))
                 /\ elapsed = 90
        /\ lastFetch.kind = "error" =>
              /\ pc = "done"
              /\ result = Plain(APIError(lastFetch.code))
              /\ elapsed = TickTime(ticks)
        /\ fetchLog = <<"present", "notfound">> =>
              (ticks = 2 /\ pc = "done" /\ result.err = NilErr)

C10_Witness ==
    /\ op = "WaitCleanup" /\ pc = "done"
    /\ fetchLog = <<"present", "notfound">>
    /\ ticks = 2
    /\ elapsed = 5
    /\ result = Plain(NilErr)

\* the platform answered a write without an error other than not-found
Tolerated(code) == code \in {"", "NotFound"}

\* the error with the code the platform answered
AnswerErr(code) == IF code = "" THEN NilErr ELSE APIError(code)

\* C11: Destroy issues one delete and nothing else; a delete the platform
\* answers with not-found is reported as success, any other error of the
\* delete is returned; of two calls of Destroy in succession with the
\* object absent at the second, both return success.
C11_DestroyIdempotent ==
    op = "Destroy" =>
        /\ gets = 0 /\ ticks = 0
        /\ issued \in {<<>>, <<"delete">>}
        /\ pc = "done" =>
              /\ issued = <<"delete">>
              /\ Tolerated(answers[1]) => result = Plain(NilErr)
              /\ ~Tolerated(answers[1]) => result = Plain(APIError(answers[1]))
              /\ (prev # NoCall /\ Tolerated(prev.answers[1])
                     /\ answers[1] = "NotFound")
                    => (prev.result = Plain(NilErr) /\ result = Plain(NilErr))

C11_Witness ==
    /\ op = "Destroy" /\ pc = "done"
    /\ prev = [result |-> Plain(NilErr), answers |-> <<"">>]
    /\ answers = <<"NotFound">>
    /\ ~obj.exists
    /\ result = Plain(NilErr)

Count(x, seq) == Cardinality({i \in DOMAIN seq : seq[i] = x})

\* C17: one call of Deploy makes at most one fetch of its own, issues at
\* most one delete and at most one create or patch; the create or patch is
\* the last write of the call and its error is returned unchanged.
C17_NoRetry ==
    op = "Deploy" =>
        /\ gets <= 1
        /\ Count("delete", issued) <= 1
        /\ Count("create", issued) + Count("patch", issued) <= 1
        /\ Len(answers) = Len(issued)
        /\ \A i \in DOMAIN issued :
              issued[i] \in {"create", "patch"} =>
                  /\ i = Len(issued)
                  /\ pc = "done"
                  /\ result = Plain(AnswerErr(answers[i]))

C17_Witness ==
    /\ op = "Deploy" /\ pc = "done"
    /\ gets = 1
    /\ issued = <<"patch">>
    /\ answers = <<"Forbidden">>
    /\ result = Plain(APIError("Forbidden"))

\* C19: on the path of Deploy that starts with a delete, the create is
\* issued only after a tick of the teardown wait got not-found; when the
\* delete fails, or the teardown wait ends in a fetch error or in the
\* timeout, Deploy returns that error and issues neither create nor patch.
C19_MigrationOrder ==
    (op = "Deploy" /\ issued # <<>> /\ issued[1] = "delete") =>
        /\ issued \in {<<"delete">>, <<"delete", "create">>}
        /\ (pc = "sync" \/ Len(issued) = 2) =>
              /\ Tolerated(answers[1])
              /\ ticks >= 1
              /\ lastFetch.kind = "notfound"
        /\ ~Tolerated(answers[1]) =>
              /\ pc = "done"
              /\ result = Plain(APIError(answers[1]))
              /\ issued = <<"delete">>
              /\ ticks = 0
        /\ lastFetch.kind = "error" =>
              /\ pc = "done"
              /\ result = Plain(APIError(lastFetch.code))
              /\ issued = <<"delete">>
        /\ (lastFetch.kind = "present" /\ pc = "done") =>
              /\ result = Plain(RetryError("DeadlineExceeded", NilErr))
              /\ elapsed = 90
              /\ issued = <<"delete">>

C19_Witness ==
    /\ op = "Deploy" /\ pc = "done"
    /\ issued = <<"delete", "create">>
    /\ answers = <<"", "">>
    /\ LogStartsWith(<<"present", "notfound">>)
    /\ ticks = 2
    /\ result = Plain(NilErr)

\* syncStatefulset has run on the snapshot
Composing == submitted # Unused

\* syncStatefulset handed a working copy to the platform
Written == Composing /\ submitted.write \in {"create", "patch"}

\* C12 as stated: in every object syncStatefulset hands to the platform for
\* a create or a patch, every match label of the selector is a label of the
\* pod template with the same value, whatever the labels of the snapshot.
C12_AsStated ==
    Written =>
        \A k \in DOMAIN submitted.sts.spec.selector :
            /\ k \in DOMAIN submitted.sts.spec.templateLabels
            /\ submitted.sts.spec.templateLabels[k] = submitted.sts.spec.selector[k]

\* C13 as stated: the composition completes for every snapshot, and an
\* optional field that is absent falls back to its fixed default.
C13_AsStated ==
    Composing =>
        /\ ~submitted.panic
        /\ snap.Resources = Nil =>
              /\ submitted.sts.spec.etcd.resources = defaultResourceRequirements
              /\ submitted.sts.spec.backup.resources = defaultResourceRequirements
        /\ snap.StorageCapacity = Nil =>
              submitted.sts.spec.storage = defaultStorageCapacity
        /\ snap.Ports = Nil =>
              /\ submitted.sts.spec.etcd.ports = <<defaultServerPort, defaultClientPort>>
              /\ submitted.sts.spec.backup.ports = <<defaultBackupPort>>

\* the snapshot has a backup store whose provider identifier is not known
UnknownProvider ==
    /\ snap.BackupStore # NilStore
    /\ snap.BackupStore.Provider \notin ProviderKinds \cup {Nil, "aws", "gcp"}

\* the snapshot without its backup store
WithoutStore == [snap EXCEPT !.BackupStore = NilStore]

\* C14 as stated: with a provider identifier that is not known the
\* composition completes and the volume mounts, the volumes and the
\* environment are exactly those of the snapshot without a backup store.
C14_AsStated ==
    (Composing /\ UnknownProvider) =>
        /\ ~submitted.panic
        /\ submitted.sts.spec.backup.mounts = getBackupRestoreVolumeMounts(WithoutStore)
        /\ submitted.sts.spec.etcd.mounts = getEtcdVolumeMounts(WithoutStore)
        /\ submitted.sts.spec.volumes = getVolumes(WithoutStore)
        /\ submitted.sts.spec.backup.env = getBackupRestoreEnvVars(WithoutStore)

\* C14 amended: with a provider identifier that is not known the
\* composition completes, the volume mounts and the volumes are exactly
\* those of the snapshot without a backup store, and so is the environment
\* but for the value of STORAGE_CONTAINER, which is the container name of
\* the backup store, or empty when it has none.
C14_UnknownProvider ==
    (Composing /\ UnknownProvider) =>
        LET env == submitted.sts.spec.backup.env
            plain == getBackupRestoreEnvVars(WithoutStore)
        IN /\ ~submitted.panic
           /\ submitted.sts.spec.backup.mounts = getBackupRestoreVolumeMounts(WithoutStore)
           /\ submitted.sts.spec.etcd.mounts = getEtcdVolumeMounts(WithoutStore)
           /\ submitted.sts.spec.volumes = getVolumes(WithoutStore)
           /\ Len(env) = Len(plain)
           /\ \A i \in DOMAIN env :
                 IF env[i].name = "STORAGE_CONTAINER"
                 THEN env[i] = [plain[i] EXCEPT !.value =
                                    IF snap.BackupStore.Container = Nil THEN ""
                                    ELSE snap.BackupStore.Container]
                 ELSE env[i] = plain[i]

C14_Witness ==
    /\ Written /\ UnknownProvider
    /\ snap.BackupStore.Container = "bucket"
    /\ snap.BackupStore.SecretRef = Nil
    /\ snap.ClientUrlTLS
    /\ Len(submitted.sts.spec.backup.env) = 3
    /\ submitted.sts.spec.backup.env[1].value = "bucket"
    /\ Len(submitted.sts.spec.backup.mounts) = 5

\* C15 as stated: a patch syncStatefulset submits is the difference of the
\* baseline and the working copy, and it leaves every field the composer
\* does not produce as the fetched object had it: the status, the
\* finalizers, the labels that are not among the composed ones.
C15_AsStated ==
    (Written /\ submitted.write = "patch" /\ ~submitted.rejected) =>
        /\ \A f \in PatchFields :
              f \in DOMAIN submitted.patch <=> submitted.sts[f] # target[f]
        /\ stored.status = target.status
        /\ stored.finalizers = target.finalizers
        /\ \A k \in DOMAIN target.labels \ DOMAIN getObjectMeta(snap).labels :
              k \in DOMAIN stored.labels /\ stored.labels[k] = target.labels[k]

\* the names of the volumes of the submitted pod
VolumeNames ==
    {submitted.sts.spec.volumes[i].name : i \in DOMAIN submitted.sts.spec.volumes}

\* C20: whenever the composition completes, every volume mount of the etcd
\* container and of the backup-restore container names a volume of the pod
\* or the volume claim template.
C20_MountsDefined ==
    (Composing /\ ~submitted.panic) =>
        LET spec == submitted.sts.spec
            defined == VolumeNames \cup {spec.templates[i] : i \in DOMAIN spec.templates}
        IN /\ \A i \in DOMAIN spec.etcd.mounts : spec.etcd.mounts[i].name \in defined
           /\ \A i \in DOMAIN spec.backup.mounts :
                 spec.backup.mounts[i].name \in defined

C20_Witness ==
    /\ Written
    /\ snap.ClientUrlTLS /\ snap.PeerUrlTLS
    /\ snap.BackupStore # NilStore
    /\ snap.BackupStore.Provider = "OCS"
    /\ InSeq(VolumeMount("etcd-backup", "/root/etcd-backup/"),
             submitted.sts.spec.backup.mounts)
    /\ "etcd-backup" \in VolumeNames
    /\ Len(submitted.sts.spec.etcd.mounts) = 6

\* the running waiter returned a cancellation: the error of the cancelled
\* context from a fetch, or the retry error that carries it from the sleep
CancellationOutcome(err) ==
    \/ err = CtxError
    \/ err.type = "retry" /\ err.code = "Canceled"

C18_Outcome ==
    (WaiterCall /\ cancelled) =>
        /\ pc = "enrich" => CancellationOutcome(pollErr)
        /\ pc = "done" =>
              /\ CancellationOutcome(result.err)
              /\ result.err # NilErr
              /\ result.err # RetryError("DeadlineExceeded", lastErr)
              /\ result.messages = <<>>

\* a step of the waiter after the cancellation: its next fetch or its sleep
C18_Stops ==
    (WaiterCall /\ Running /\ cancelled /\ pc' # pc) =>
        /\ pc' \in {"enrich", "done"}
        /\ ticks' <= ticks + 1
        /\ pc \in {"wait.sleep", "cleanup.sleep"} => ticks' = ticks

\* C18: once the caller has cancelled the context of Wait or WaitCleanup,
\* during a fetch or during the sleep, the waiter stops polling at its next
\* step and returns a cancellation, which is neither the timeout nor
\* success nor an error with claim messages appended.
C18_CancelStopsWaiter == []C18_Outcome /\ [][C18_Stops]_vars

C18_Witness ==
    /\ op = "Wait" /\ pc = "done"
    /\ cancelled
    /\ ticks = 2
    /\ lastFetch.kind = "present"
    /\ result = Plain(RetryError("Canceled", NotReadyErr))

\* the two invocations of Deploy that run at once, each with what it
\* fetched, what it wrote and what it returned
Invocations ==
    <<[pc |-> pc, fetched |-> fetched, gets |-> gets, issued |-> issued,
       answers |-> answers, result |-> result],
      [pc |-> other.pc, fetched |-> other.fetched, gets |-> other.gets,
       issued |-> other.issued, answers |-> other.answers,
       result |-> other.result]>>

\* the writes of an invocation follow from its own fetch alone
ActsOnItsFetch(inv) ==
    inv.issued # <<>> =>
        CASE inv.fetched.kind = "notfound" -> inv.issued = <<"create">>
          [] inv.fetched.kind = "found" ->
                IF NeedsRecreate(inv.fetched, values)
                THEN inv.issued \in {<<"delete">>, <<"delete", "create">>}
                ELSE inv.issued = <<"patch">>
          [] OTHER -> FALSE

\* C16: of two invocations of Deploy that interleave on one object, each
\* makes one fetch and decides its writes from that fetch alone, whatever
\* the other has done to the object since; each issues at most one create
\* or patch, as its last write, and returns the error the platform
\* answered to it unchanged, with no second fetch and no second attempt.
C16_DeployRaces ==
    \A n \in DOMAIN Invocations :
        LET inv == Invocations[n]
        IN /\ inv.gets <= 1
           /\ Len(inv.answers) = Len(inv.issued)
           /\ Count("create", inv.issued) + Count("patch", inv.issued) <= 1
           /\ ActsOnItsFetch(inv)
           /\ \A i \in DOMAIN inv.issued :
                 inv.issued[i] \in {"create", "patch"} =>
                     /\ i = Len(inv.issued)
                     /\ inv.pc = "done"
                     /\ inv.result = Plain(AnswerErr(inv.answers[i]))

\* both invocations fetched not-found and both issued the create: the
\* first one made the object, the second got already-exists and returned it
C16_Witness ==
    /\ fetched.kind = "notfound" /\ other.fetched.kind = "notfound"
    /\ issued = <<"create">> /\ answers = <<"">>
    /\ result = Plain(NilErr)
    /\ other.issued = <<"create">> /\ other.answers = <<"AlreadyExists">>
    /\ other.pc = "done"
    /\ other.result = Plain(APIError("AlreadyExists"))

\* the kinds of object storage: every kind but the host path
ObjectStoreKinds == ProviderKinds \ {"Local"}

\* the kind of the backup store of the snapshot
StoreKind == StorageProviderFromInfraProvider(snap.BackupStore.Provider)

\* the snapshot has a backup store of a kind of object storage
ObjectStore ==
    /\ snap.BackupStore # NilStore
    /\ ~StoreKind.err
    /\ StoreKind.provider \in ObjectStoreKinds

\* strings.Split(path, "/") of the paths of the package, without the
\* empty element before the leading slash
Segments(path) ==
    CASE path = "/root/etcd-backup" -> <<"root", "etcd-backup">>
      [] path = "/root/etcd-backup/" -> <<"root", "etcd-backup", "">>
      [] path = "/root/.gcp/" -> <<"root", ".gcp", "">>
      [] path = "/root/.gcp/serviceaccount.json" ->
             <<"root", ".gcp", "serviceaccount.json">>
      [] path = "/var/etcd-backup" -> <<"var", "etcd-backup">>
      [] OTHER -> <<path>>

\* the path without its empty elements, as path.Clean leaves it
Clean(segments) == SelectSeq(segments, LAMBDA x : x # "")

\* the path is the directory a volume is mounted at or lies below it
InsideMount(path, mountPath) ==
    HasPrefix(Clean(Segments(path)), Clean(Segments(mountPath)))

\* what seq has after the elements of plain
Contributed(seq, plain) == SubSeq(seq, Len(plain) + 1, Len(seq))

EnvNames(env) == [i \in DOMAIN env |-> env[i].name]

\* a snapshot with a backup store of the kind and nothing else
KindSample(kind) ==
    [snap EXCEPT !.BackupStore = [Provider |-> kind, Container |-> Nil,
                                  SecretRef |-> "secret"],
                 !.ClientUrlTLS = FALSE, !.PeerUrlTLS = FALSE]

\* the variable getBackupRestoreEnvVars adds for the kind
CredentialsVariable(kind) ==
    LET env == getBackupRestoreEnvVars(KindSample(kind)) IN env[Len(env)]

\* C21: whenever the composition completes for a backup store of a kind of
\* object storage, the etcd container mounts what it mounts without a
\* backup store.  For ECS the pod has no volume and the backup-restore
\* container no mount more than without a backup store, and the
\* environment has three variables more, read from the keys endpoint,
\* accessKeyID and secretAccessKey of the secret of the store.  For every
\* other kind the pod has one volume more, backed by the secret of the
\* store, the backup-restore container one mount more, of that volume, and
\* the environment one variable more, which is the variable of the kind
\* alone, the same for every snapshot, and whose value is a path at or
\* below the path of that mount.
C21_ProviderTable ==
    (Composing /\ ~submitted.panic /\ ObjectStore) =>
        LET spec == submitted.sts.spec
            kind == StoreKind.provider
            plainVolumes == getVolumes(WithoutStore)
            plainMounts == getBackupRestoreVolumeMounts(WithoutStore)
            plainEnv == getBackupRestoreEnvVars(WithoutStore)
            volumes == Contributed(spec.volumes, plainVolumes)
            mounts == Contributed(spec.backup.mounts, plainMounts)
            env == Contributed(spec.backup.env, plainEnv)
        IN /\ HasPrefix(spec.volumes, plainVolumes)
           /\ HasPrefix(spec.backup.mounts, plainMounts)
           /\ HasPrefix(EnvNames(spec.backup.env), EnvNames(plainEnv))
           /\ spec.etcd.mounts = getEtcdVolumeMounts(WithoutStore)
           /\ IF kind = "ECS"
              THEN /\ volumes = <<>>
                   /\ mounts = <<>>
                   /\ Len(env) = 3
                   /\ \A i \in DOMAIN env :
                         /\ env[i].from = "secret"
                         /\ env[i].value = snap.BackupStore.SecretRef
                   /\ <<env[1].key, env[2].key, env[3].key>>
                         = <<"endpoint", "accessKeyID", "secretAccessKey">>
              ELSE /\ Len(volumes) = 1
                   /\ volumes[1].source = snap.BackupStore.SecretRef
                   /\ Len(mounts) = 1
                   /\ mounts[1].name = volumes[1].name
                   /\ Len(env) = 1
                   /\ env[1].from = "value"
                   /\ env[1] = CredentialsVariable(kind)
                   /\ \A other_kind \in ObjectStoreKinds \ {kind} :
                         CredentialsVariable(other_kind).name # env[1].name
                   /\ InsideMount(env[1].value, mounts[1].mountPath)

\* a store on S3 composed with TLS on both sides: the secret volume, its
\* mount and the credentials variable come last
C21_Witness ==
    /\ Written /\ ObjectStore
    /\ snap.BackupStore.Provider = "aws"
    /\ snap.BackupStore.SecretRef = "secret"
    /\ snap.ClientUrlTLS /\ snap.PeerUrlTLS
    /\ Len(submitted.sts.spec.volumes) = 7
    /\ submitted.sts.spec.volumes[7] = Volume("etcd-backup", "secret")
    /\ submitted.sts.spec.backup.mounts[8]
          = VolumeMount("etcd-backup", "/root/etcd-backup/")
    /\ submitted.sts.spec.backup.env[4]
          = getEnvVarFromValue("AWS_APPLICATION_CREDENTIALS", "/root/etcd-backup")

====
